---------------------------- MODULE Spec2Model ----------------------------
(***************************************************************************)
(* spinarak: a worker pool that fetches pages and counts a word on each.   *)
(*                                                                         *)
(* main parses the command line, makes two buffered channels, starts       *)
(* numWorkers goroutines running wordsOnPage, pushes every link, closes    *)
(* the link channel and prints len(links) Results.  Each worker loops      *)
(* over the link channel: GET, check the status, count, send a Result.     *)
(*                                                                         *)
(* Text is a sequence of one-character strings.  The web is a fixed        *)
(* function from URL to what a GET of it yields.                           *)
(***************************************************************************)
EXTENDS Integers, Sequences, FiniteSets, Bags, TLC

(* ------------------------------ bounds -------------------------------- *)

\* Longest link list on the command line.
MaxLinks == 3

\* Largest ordinary -workers value tried (the all-ones word is tried too).
MaxWorkers == 2

\* Stand-in for bufio.MaxScanTokenSize (64 * 1024), scaled down so that a
\* page of the model can hold a token that does not fit the scanner's buffer.
MaxScanTokenSize == 4

\* Longest body countOccurrences is tried on by itself.
MaxBody == 6

(* ------------------------------- text --------------------------------- *)

Cat == <<"c", "a", "t">>

Space == {" ", "\t", "\n"}

\* unicode.IsSpace as bufio.ScanWords uses it, on the model's alphabet
isSpace(c) == c \in Space

(* ------------------------------ errors -------------------------------- *)

\* a nil error, as %v prints it
Nil == "<nil>"

\* the error of errors.New at the status check
ErrStatus == "Did not receive 200 OK"

\* the error http.Get returns when the transport fails
ErrGet == "Get: dial tcp: connection refused"

\* a non-EOF error of the body's Read, as scanner.Err() hands it on
ErrRead == "unexpected EOF"

\* bufio.ErrTooLong
ErrTooLong == "bufio.Scanner: token too long"

(* ------------------------------ the web ------------------------------- *)

\* A body stream: the bytes its Read calls deliver, and whether the stream
\* then ends with a read error (TRUE) or with io.EOF (FALSE).
Stream(data, fails) == [data |-> data, fails |-> fails]

NoBody == Stream(<<>>, FALSE)

URLs == {"ok", "nf", "down", "cut"}

\* -word values tried: none, and "cat"
Targets == {<<>>, Cat}

\* The web: what a GET of each URL yields (err, and the response's
\* StatusCode and Body).
\*   ok    200, "a cat sat on a cat mat"
\*   nf    404, with a body that holds the word
\*   down  the transport fails
\*   cut   200, the body's Read fails after "\ncat dog\tcat"
Web ==
    [u \in URLs |->
       CASE u = "ok" ->
              [err |-> Nil, StatusCode |-> 200,
               Body |-> Stream(<<"a", " ">> \o Cat \o <<" ", "s", "a", "t",
                               " ", "o", "n", " ", "a", " ">> \o Cat \o
                               <<" ", "m", "a", "t">>, FALSE)]
         [] u = "nf" ->
              [err |-> Nil, StatusCode |-> 404,
               Body |-> Stream(Cat \o <<"\n">>, FALSE)]
         [] u = "down" ->
              [err |-> ErrGet, StatusCode |-> 0, Body |-> NoBody]
         [] OTHER ->
              [err |-> Nil, StatusCode |-> 200,
               Body |-> Stream(<<"\n">> \o Cat \o <<" ", "d", "o", "g", "\t">>
                               \o Cat, TRUE)]]

\* http.Get(link)
Get(link) == Web[link]

(* --------------------------- countOccurrences ------------------------- *)

\* the error scanner.Err() reports once the stream s is exhausted
StreamErr(s) == IF s.fails THEN ErrRead ELSE Nil

\* first index >= pos of data that holds no space (Len(data)+1 if none):
\* bufio.ScanWords skipping leading spaces
SkipSpaces(data, pos) ==
    LET skip[p \in 1..(Len(data) + 1)] ==
            IF p > Len(data) \/ ~isSpace(data[p]) THEN p ELSE skip[p + 1]
    IN  skip[pos]

\* first index >= pos of data that holds a space (Len(data)+1 if none):
\* bufio.ScanWords scanning to the end of the word
WordEnd(data, pos) ==
    LET scan[p \in 1..(Len(data) + 1)] ==
            IF p > Len(data) \/ isSpace(data[p]) THEN p ELSE scan[p + 1]
    IN  scan[pos]

\* The loop `for scanner.Scan()` from position pos0 with count0 matches so
\* far.  A token that fills the scanner's buffer before its end is seen stops
\* the scan with ErrTooLong; data read before a failed Read is still
\* tokenized, its last word included.
ScanLoop(target, s, pos0, count0) ==
    LET loop[pos \in 1..(Len(s.data) + 1), count \in 0..Len(s.data)] ==
            LET start == SkipSpaces(s.data, pos)
                end   == WordEnd(s.data, start)
            IN  IF start > Len(s.data) THEN <<count, StreamErr(s)>>
                ELSE IF end - start >= MaxScanTokenSize
                     THEN <<count, ErrTooLong>>
                     ELSE loop[end, IF target = SubSeq(s.data, start, end - 1)
                                    THEN count + 1 ELSE count]
    IN  loop[pos0, count0]

\* countOccurrences that forgets the count when the scan ends in an error
countOccurrencesZeroOnError(target, s) ==
    LET ce == ScanLoop(target, s, 1, 0)
    IN  IF ce[2] # Nil THEN <<0, ce[2]>> ELSE ce

\* countOccurrences(word, s): <<count, err>>
countOccurrences(target, s) == ScanLoop(target, s, 1, 0)

(* ------------------------------- Result ------------------------------- *)

Result(link, count, err) == [link |-> link, count |-> count, err |-> err]

NoResult == Result("", 0, Nil)

\* String that prints a zero where the count belongs
StringWithoutCount(r) == <<r.link, "\n\tcount: ", 0, "\n\terror: ", r.err>>

\* Result.String: "%s\n\tcount: %d\n\terror: %v"
String(r) == <<r.link, "\n\tcount: ", r.count, "\n\terror: ", r.err>>

(* ------------------------------ channels ------------------------------ *)

\* make with a buffer one slot short
MakeChanShort(n) ==
    [buf |-> <<>>, cap |-> IF n > 1 THEN n - 1 ELSE n, closed |-> FALSE]

\* make(chan T, n)
MakeChan(n) == [buf |-> <<>>, cap |-> n, closed |-> FALSE]

\* a nil channel, before make
NilChan == MakeChan(0)

\* ch <- v can proceed
CanSend(ch) == Len(ch.buf) < ch.cap

\* a send that puts the value at the front of the buffer
SendFront(ch, v) == [ch EXCEPT !.buf = <<v>> \o @]

\* ch <- v
Send(ch, v) == [ch EXCEPT !.buf = Append(@, v)]

\* <-ch can deliver a value
CanRecv(ch) == ch.buf # <<>>

\* a receive that leaves the value in the buffer
RecvKeep(ch) == ch

\* the channel after <-ch delivered Head(ch.buf)
Recv(ch) == [ch EXCEPT !.buf = Tail(@)]

\* a close that throws the buffered values away
CloseAndDrain(ch) == [ch EXCEPT !.closed = TRUE, !.buf = <<>>]

\* close(ch)
Close(ch) == [ch EXCEPT !.closed = TRUE]

\* a loop that ends as soon as the channel is empty
RangeDoneWhenEmpty(ch) == ch.buf = <<>>

\* `range ch` ends: the channel is closed and drained
RangeDone(ch) == ch.closed /\ ch.buf = <<>>

(* -------------------------------- state ------------------------------- *)

Workers == 1..MaxWorkers

VARIABLES
    word,         \* -word
    numWorkers,   \* -workers: the uint's machine word, read as two's complement
    links,        \* the positional arguments
    pc,           \* where main is
    i,            \* main's loop counter (spawn loop, receive loop)
    next,         \* index of the next link main's range loop sends
    link_chan,    \* the link channel
    result_chan,  \* the result channel
    wpc,          \* where each worker is
    wlink,        \* each worker's loop variable link
    wresult,      \* the Result each worker is about to send
    stdout,       \* what main has printed
    gets,         \* history: GETs issued per URL
    scans,        \* history: countOccurrences calls per URL
    reader,       \* countOccurrences called by itself: its io.Reader s
    counted       \* countOccurrences called by itself: what it returned

vars == <<word, numWorkers, links, pc, i, next, link_chan, result_chan,
          wpc, wlink, wresult, stdout, gets, scans, reader, counted>>

mainVars == <<word, numWorkers, links, pc, i, next, stdout>>
workerVars == <<wpc, wlink, wresult, gets, scans>>
scanVars == <<reader, counted>>

\* countOccurrences has not returned
NotCounted == <<>>

\* every sequence over S of length at most n
SeqsUpTo(S, n) == UNION {[1..m -> S] : m \in 0..n}

\* -workers values tried: 0..MaxWorkers, and -1, the machine word of
\* 18446744073709551615 (the largest value flag.UintVar accepts)
WorkerArgs == (0..MaxWorkers) \cup {-1}

\* A uint is kept as its 64-bit machine word, written as the two's-complement
\* integer with the same bits: the words of 0 .. 2^63-1 are the numbers
\* themselves, the word of 2^64-1 is -1.

\* a < b read as uints
UintLess(a, b) == IF (a < 0) = (b < 0) THEN a < b ELSE b < 0

\* int(n) of a uint n: Go keeps the bits and reads them as signed, which on
\* this encoding is the word as it stands (negative from 2^63 on)
ToInt(n) == n

Init ==
    /\ word \in Targets
    /\ numWorkers \in WorkerArgs
    /\ links \in SeqsUpTo(URLs, MaxLinks)
    /\ pc = "parse"
    /\ i = 0
    /\ next = 1
    /\ link_chan = NilChan
    /\ result_chan = NilChan
    /\ wpc = [w \in Workers |-> "none"]
    /\ wlink = [w \in Workers |-> ""]
    /\ wresult = [w \in Workers |-> NoResult]
    /\ stdout = <<>>
    /\ gets = [u \in URLs |-> 0]
    /\ scans = [u \in URLs |-> 0]
    /\ reader = NoBody
    /\ counted = NotCounted

(* -------------------------------- main -------------------------------- *)

\* parseCLI's sanity check passes
ArgsOK == word # <<>> /\ ~UintLess(numWorkers, 1) /\ ~(Len(links) < 1)

\* parseCLI: exit status 1 unless the arguments pass
ParseCLI ==
    /\ pc = "parse"
    /\ pc' = IF ArgsOK THEN "make" ELSE "exit1"
    /\ UNCHANGED <<word, numWorkers, links, i, next, stdout,
                   link_chan, result_chan>>
    /\ UNCHANGED workerVars
    /\ UNCHANGED scanVars

\* a link channel with one slot, whatever the number of links
MakeChansOneSlot ==
    /\ pc = "make"
    /\ link_chan' = MakeChan(1)
    /\ result_chan' = MakeChan(Len(links))
    /\ i' = 0
    /\ pc' = "spawn"
    /\ UNCHANGED <<word, numWorkers, links, next, stdout>>
    /\ UNCHANGED workerVars
    /\ UNCHANGED scanVars

\* link_chan := make(chan string, len(links)); result_chan likewise
MakeChans ==
    /\ pc = "make"
    /\ link_chan' = MakeChan(Len(links))
    /\ result_chan' = MakeChan(Len(links))
    /\ i' = 0
    /\ pc' = "spawn"
    /\ UNCHANGED <<word, numWorkers, links, next, stdout>>
    /\ UNCHANGED workerVars
    /\ UNCHANGED scanVars

\* the spawn loop's condition, i < int(numWorkers)
SpawnMore == i < ToInt(numWorkers)

\* one iteration of the spawn loop: go wordsOnPage(...)
Spawn ==
    /\ pc = "spawn"
    /\ SpawnMore
    /\ wpc' = [wpc EXCEPT ![i + 1] = "range"]
    /\ i' = i + 1
    /\ UNCHANGED <<word, numWorkers, links, pc, next, stdout,
                   link_chan, result_chan, wlink, wresult, gets, scans>>
    /\ UNCHANGED scanVars

\* the spawn loop ends
SpawnDone ==
    /\ pc = "spawn"
    /\ ~SpawnMore
    /\ next' = 1
    /\ pc' = "send"
    /\ UNCHANGED <<word, numWorkers, links, i, stdout, link_chan, result_chan>>
    /\ UNCHANGED workerVars
    /\ UNCHANGED scanVars

\* one iteration of the send loop: link_chan <- link
SendLink ==
    /\ pc = "send"
    /\ next <= Len(links)
    /\ CanSend(link_chan)
    /\ link_chan' = Send(link_chan, links[next])
    /\ next' = next + 1
    /\ UNCHANGED <<word, numWorkers, links, pc, i, stdout, result_chan>>
    /\ UNCHANGED workerVars
    /\ UNCHANGED scanVars

\* a send loop that stops one link short
SendDoneEarly ==
    /\ pc = "send"
    /\ next >= Len(links)
    /\ pc' = "close"
    /\ UNCHANGED <<word, numWorkers, links, i, next, stdout,
                   link_chan, result_chan>>
    /\ UNCHANGED workerVars
    /\ UNCHANGED scanVars

\* the send loop ends
SendDone ==
    /\ pc = "send"
    /\ next > Len(links)
    /\ pc' = "close"
    /\ UNCHANGED <<word, numWorkers, links, i, next, stdout,
                   link_chan, result_chan>>
    /\ UNCHANGED workerVars
    /\ UNCHANGED scanVars

\* close(link_chan)
CloseLinks ==
    /\ pc = "close"
    /\ link_chan' = Close(link_chan)
    /\ i' = 0
    /\ pc' = "recv"
    /\ UNCHANGED <<word, numWorkers, links, next, stdout, result_chan>>
    /\ UNCHANGED workerVars
    /\ UNCHANGED scanVars

\* one iteration of the receive loop: fmt.Println(<-result_chan)
RecvResult ==
    /\ pc = "recv"
    /\ i < Len(links)
    /\ CanRecv(result_chan)
    /\ stdout' = Append(stdout, String(Head(result_chan.buf)))
    /\ result_chan' = Recv(result_chan)
    /\ i' = i + 1
    /\ UNCHANGED <<word, numWorkers, links, pc, next, link_chan>>
    /\ UNCHANGED workerVars
    /\ UNCHANGED scanVars

\* the receive loop ends and main returns: the program exits
MainReturn ==
    /\ pc = "recv"
    /\ ~(i < Len(links))
    /\ pc' = "done"
    /\ UNCHANGED <<word, numWorkers, links, i, next, stdout,
                   link_chan, result_chan>>
    /\ UNCHANGED workerVars
    /\ UNCHANGED scanVars

(* ------------------------------ wordsOnPage --------------------------- *)

\* goroutines run only while the program does
Running == pc \notin {"exit1", "done"}

\* a receive under a lock that a worker holds across its GET
WorkerTakeLocked(w) ==
    /\ Running
    /\ wpc[w] = "range"
    /\ \A v \in Workers : wpc[v] # "get"
    /\ CanRecv(link_chan)
    /\ wlink' = [wlink EXCEPT ![w] = Head(link_chan.buf)]
    /\ link_chan' = Recv(link_chan)
    /\ wpc' = [wpc EXCEPT ![w] = "get"]
    /\ UNCHANGED <<result_chan, wresult, gets, scans>>
    /\ UNCHANGED mainVars
    /\ UNCHANGED scanVars

\* `for link := range links` receives a link
WorkerTake(w) ==
    /\ Running
    /\ wpc[w] = "range"
    /\ CanRecv(link_chan)
    /\ wlink' = [wlink EXCEPT ![w] = Head(link_chan.buf)]
    /\ link_chan' = Recv(link_chan)
    /\ wpc' = [wpc EXCEPT ![w] = "get"]
    /\ UNCHANGED <<result_chan, wresult, gets, scans>>
    /\ UNCHANGED mainVars
    /\ UNCHANGED scanVars

\* a worker that reports on the result channel that it is done, and then
\* returns
WorkerReturnWithSentinel(w) ==
    /\ Running
    /\ wpc[w] = "range"
    /\ RangeDone(link_chan)
    /\ CanSend(result_chan)
    /\ result_chan' = Send(result_chan, NoResult)
    /\ wpc' = [wpc EXCEPT ![w] = "returned"]
    /\ UNCHANGED <<link_chan, wlink, wresult, gets, scans>>
    /\ UNCHANGED mainVars
    /\ UNCHANGED scanVars

\* `for link := range links` finds the channel closed and drained: return
WorkerReturn(w) ==
    /\ Running
    /\ wpc[w] = "range"
    /\ RangeDone(link_chan)
    /\ wpc' = [wpc EXCEPT ![w] = "returned"]
    /\ UNCHANGED <<link_chan, result_chan, wlink, wresult, gets, scans>>
    /\ UNCHANGED mainVars
    /\ UNCHANGED scanVars

\* the Result of the else branch: Result{link, count, err}
Counted(target, link, body) ==
    LET ce == countOccurrences(target, body)
    IN  Result(link, ce[1], ce[2])

\* the GET's branches without the status check
AfterGetNoStatusCheck(target, link, res) ==
    IF res.err # Nil
    THEN [scanned |-> FALSE, result |-> Result(link, 0, res.err)]
    ELSE [scanned |-> TRUE, result |-> Counted(target, link, res.Body)]

\* The body of the loop after res, err := http.Get(link): the Result to send,
\* and whether countOccurrences was called for it.
AfterGet(target, link, res) ==
    IF res.err # Nil
    THEN [scanned |-> FALSE, result |-> Result(link, 0, res.err)]
    ELSE IF res.StatusCode # 200
         THEN [scanned |-> FALSE, result |-> Result(link, 0, ErrStatus)]
         ELSE [scanned |-> TRUE, result |-> Counted(target, link, res.Body)]

\* AfterGet of every GET the model can issue, worked out once
Fetched == [t \in Targets, u \in URLs |-> AfterGet(t, u, Get(u))]

\* a GET that is tried a second time when the first try fails
WorkerGetRetry(w) ==
    /\ Running
    /\ wpc[w] = "get"
    /\ LET after == Fetched[word, wlink[w]]
       IN  /\ wresult' = [wresult EXCEPT ![w] = after.result]
           /\ scans' = [scans EXCEPT
                          ![wlink[w]] = IF after.scanned THEN @ + 1 ELSE @]
    /\ gets' = [gets EXCEPT
                  ![wlink[w]] = IF Get(wlink[w]).err # Nil THEN @ + 2 ELSE @ + 1]
    /\ wpc' = [wpc EXCEPT ![w] = "send"]
    /\ UNCHANGED <<link_chan, result_chan, wlink>>
    /\ UNCHANGED mainVars
    /\ UNCHANGED scanVars

\* res, err := http.Get(link) and the branch taken on its outcome, up to the
\* send: the worker touches nothing shared in between
WorkerGet(w) ==
    /\ Running
    /\ wpc[w] = "get"
    /\ LET after == Fetched[word, wlink[w]]
       IN  /\ wresult' = [wresult EXCEPT ![w] = after.result]
           /\ scans' = [scans EXCEPT
                          ![wlink[w]] = IF after.scanned THEN @ + 1 ELSE @]
    /\ gets' = [gets EXCEPT ![wlink[w]] = @ + 1]
    /\ wpc' = [wpc EXCEPT ![w] = "send"]
    /\ UNCHANGED <<link_chan, result_chan, wlink>>
    /\ UNCHANGED mainVars
    /\ UNCHANGED scanVars

\* a worker that sends its Result and stays at the send
WorkerSendAgain(w) ==
    /\ Running
    /\ wpc[w] = "send"
    /\ CanSend(result_chan)
    /\ result_chan' = Send(result_chan, wresult[w])
    /\ UNCHANGED <<wpc, wlink, wresult, link_chan, gets, scans>>
    /\ UNCHANGED mainVars
    /\ UNCHANGED scanVars

\* workers sharing one result variable: the Result sent may be another
\* sending worker's
WorkerSendShared(w) ==
    /\ Running
    /\ wpc[w] = "send"
    /\ CanSend(result_chan)
    /\ \E v \in {x \in Workers : wpc[x] = "send"} :
           result_chan' = Send(result_chan, wresult[v])
    /\ wresult' = [wresult EXCEPT ![w] = NoResult]
    /\ wlink' = [wlink EXCEPT ![w] = ""]
    /\ wpc' = [wpc EXCEPT ![w] = "range"]
    /\ UNCHANGED <<link_chan, gets, scans>>
    /\ UNCHANGED mainVars
    /\ UNCHANGED scanVars

\* a worker that returns once it has sent a Result with an error
WorkerSendQuitOnError(w) ==
    /\ Running
    /\ wpc[w] = "send"
    /\ CanSend(result_chan)
    /\ result_chan' = Send(result_chan, wresult[w])
    /\ wresult' = [wresult EXCEPT ![w] = NoResult]
    /\ wlink' = [wlink EXCEPT ![w] = ""]
    /\ wpc' = [wpc EXCEPT
                 ![w] = IF wresult[w].err # Nil THEN "returned" ELSE "range"]
    /\ UNCHANGED <<link_chan, gets, scans>>
    /\ UNCHANGED mainVars
    /\ UNCHANGED scanVars

\* results <- Result{...}, then back to the head of the loop
WorkerSend(w) ==
    /\ Running
    /\ wpc[w] = "send"
    /\ CanSend(result_chan)
    /\ result_chan' = Send(result_chan, wresult[w])
    /\ wresult' = [wresult EXCEPT ![w] = NoResult]
    /\ wlink' = [wlink EXCEPT ![w] = ""]
    /\ wpc' = [wpc EXCEPT ![w] = "range"]
    /\ UNCHANGED <<link_chan, gets, scans>>
    /\ UNCHANGED mainVars
    /\ UNCHANGED scanVars

Main ==
    \/ ParseCLI
    \/ MakeChans
    \/ Spawn
    \/ SpawnDone
    \/ SendLink
    \/ SendDone
    \/ CloseLinks
    \/ RecvResult
    \/ MainReturn

Worker(w) ==
    \/ WorkerTake(w)
    \/ WorkerReturn(w)
    \/ WorkerGet(w)
    \/ WorkerSend(w)

Next == Main \/ \E w \in Workers : Worker(w)

Spec == Init /\ [][Next]_vars

\* The Go scheduler lets every goroutine that can run do so eventually, and
\* every GET and every read of a body is taken to end.
FairSpec ==
    /\ Spec
    /\ WF_vars(Main)
    /\ \A w \in Workers : WF_vars(Worker(w))

(* ------------------------- reading the state -------------------------- *)

\* the elements of a sequence
Range(s) == {s[j] : j \in DOMAIN s}

\* how often x occurs in the sequence s
Occ(s, x) == Cardinality({j \in DOMAIN s : s[j] = x})

\* the multiset of a sequence's elements
BagOf(s) == [x \in Range(s) |-> Occ(s, x)]

\* the links main has not pushed yet
Unsent == SubSeq(links, next, Len(links))

\* the workers at one of the places ps whose loop variable is the link u
Holding(u, ps) == {w \in Workers : wpc[w] \in ps /\ wlink[w] = u}

\* the Results workers are about to send
Pending == {wresult[w] : w \in {v \in Workers : wpc[v] = "send"}}

\* the printed lines, read back as Results
Printed == [j \in DOMAIN stdout |->
              Result(stdout[j][1], stdout[j][3], stdout[j][5])]

\* every Result that exists: about to be sent, buffered, or printed
Produced == Pending \cup Range(result_chan.buf) \cup Range(Printed)

\* the Result one GET of u and one scan of its body give, by themselves
Outcome(u) == Fetched[word, u].result

\* Tokens of a text, read off the text as a whole: a token starts where a
\* non-space follows a space or the start, and runs to the next space or the end.
TokenStarts(d) ==
    {p \in DOMAIN d : ~isSpace(d[p]) /\ (p = 1 \/ isSpace(d[p - 1]))}

TokenAt(d, p) ==
    LET q == CHOOSE e \in p..Len(d) :
                 /\ \A k \in p..e : ~isSpace(d[k])
                 /\ (e = Len(d) \/ isSpace(d[e + 1]))
    IN  SubSeq(d, p, q)

\* the number of tokens of d equal to the target
Matches(target, d) ==
    Cardinality({p \in TokenStarts(d) : TokenAt(d, p) = target})

\* d holds a token the scanner's buffer cannot take
HasLongToken(d) ==
    \E p \in TokenStarts(d) : Len(TokenAt(d, p)) >= MaxScanTokenSize

\* the number of tokens equal to t in the body of each URL
PageMatchesFor ==
    [t \in Targets, u \in URLs |-> Matches(t, Get(u).Body.data)]

PageMatches(u) == PageMatchesFor[word, u]

\* the URLs whose body holds a token the scanner's buffer cannot take
LongPages == {u \in URLs : HasLongToken(Get(u).Body.data)}

(* ------------------------------- claims ------------------------------- *)

\* C1: when main returns it has printed exactly len(links) Results, and the
\* multiset of their links is the multiset of the submitted links.
C1_OneResultPerLink ==
    pc = "done" =>
        /\ Len(stdout) = Len(links)
        /\ BagOf([j \in DOMAIN stdout |-> stdout[j][1]]) = BagOf(links)

\* C1 happens: two workers finished a list of three links with a duplicate.
C1_Witness ==
    /\ pc = "done"
    /\ numWorkers = 2
    /\ Len(links) = 3
    /\ links[1] = links[3]
    /\ links[1] # links[2]

\* C2: for every accepted worker count and link list, while main has not
\* returned some step of main or of a worker is possible (nothing hangs on
\* the link channel or the result channel).
C2_NoDeadlock ==
    (pc \notin {"parse", "exit1", "done"}) => ENABLED Next

\* The same with the workers the spawn loop was asked for actually started:
\* int(numWorkers) is positive.
C2_NoDeadlockSpawned ==
    (pc \notin {"parse", "exit1", "done"} /\ ToInt(numWorkers) > 0)
        => ENABLED Next

\* With the workers started, main returns under FairSpec.
C2_TerminatesSpawned ==
    (pc = "make" /\ ToInt(numWorkers) > 0) ~> (pc = "done")

\* C3: the multiset of printed Results is that of the links' outcomes, whatever
\* the worker count and the interleaving.
C3_SameResultsAnyWorkers ==
    pc = "done" =>
        BagOf(stdout) = BagOf([j \in DOMAIN links |-> String(Outcome(links[j]))])

\* C3 happens: two workers, results printed in another order than submitted.
C3_Witness ==
    /\ pc = "done"
    /\ numWorkers = 2
    /\ Len(links) = 3
    /\ stdout[1][1] # links[1]
    /\ Cardinality(Range(links)) = 3

\* C4: every link occurrence is in one place only (not yet pushed, buffered,
\* held by one worker before its GET, or fetched), and every GET issued has
\* given exactly one Result: no occurrence is held twice or fetched twice.
C4_OneWorkerOneGet ==
    \A u \in URLs :
        /\ Occ(Unsent, u) + Occ(link_chan.buf, u)
             + Cardinality(Holding(u, {"get"})) + gets[u] = Occ(links, u)
        /\ gets[u] = Cardinality(Holding(u, {"send"}))
                       + Cardinality({j \in DOMAIN result_chan.buf :
                                        result_chan.buf[j].link = u})
                       + Cardinality({j \in DOMAIN stdout : stdout[j][1] = u})

\* C4 happens: a URL whose GET fails was submitted twice and two workers
\* fetched it, once each.
C4_Witness ==
    /\ pc = "done"
    /\ numWorkers = 2
    /\ Occ(links, "down") = 2
    /\ gets["down"] = 2

\* C5: a worker that has sent a Result with an error goes back to the head of
\* its loop and main goes on; and when main returns every link occurrence,
\* failed or not, has its line, each with the error of its own link.
C5_FailuresDoNotAbort ==
    /\ [](pc = "done" =>
            /\ \A u \in URLs :
                   Cardinality({j \in DOMAIN stdout : stdout[j][1] = u})
                       = Occ(links, u)
            /\ \A j \in DOMAIN stdout :
                   Printed[j].err = Outcome(Printed[j].link).err)
    /\ [][\A w \in Workers :
            (wpc[w] = "send" /\ wresult[w].err # Nil /\ wpc'[w] # "send")
                => (wpc'[w] = "range" /\ pc' = pc)]_vars

\* C5 happens: one worker alone got through [unreachable, 404, ok].
C5_Witness ==
    /\ pc = "done"
    /\ numWorkers = 1
    /\ links = <<"down", "nf", "ok">>
    /\ Printed[1].err = ErrGet
    /\ Printed[2].err = ErrStatus
    /\ Printed[3] = Result("ok", 2, Nil)

\* C6: the Result of a link whose GET fails is {link, 0, the GET's error}, that
\* of a link answered with a status other than 200 is {link, 0, the status
\* error}, and the body of neither is ever scanned.
C6_ErrorResults ==
    \A u \in URLs :
        LET res == Get(u)
        IN  (res.err # Nil \/ res.StatusCode # 200) =>
                /\ scans[u] = 0
                /\ \A r \in Produced :
                       r.link = u =>
                           r = Result(u, 0, IF res.err # Nil THEN res.err
                                            ELSE ErrStatus)

\* C6 happens: a 404 and an unreachable link have both been reported.
C6_Witness ==
    /\ pc = "done"
    /\ \E j, k \in DOMAIN stdout :
           /\ Printed[j] = Result("nf", 0, ErrStatus)
           /\ Printed[k] = Result("down", 0, ErrGet)

\* C7: the Result of a 200 page whose body fails while being read carries the
\* read error and the number of matching tokens of the data read before the
\* failure; a Result without error carries the number of matching tokens of
\* the whole body, and a body that reads to its end gives no error.
C7_ScanResults ==
    \A r \in Produced :
        LET res == Get(r.link)
            s   == res.Body
        IN  (res.err = Nil /\ res.StatusCode = 200 /\ r.link \notin LongPages) =>
                /\ r.count = PageMatches(r.link)
                /\ r.err = IF s.fails THEN ErrRead ELSE Nil

\* C7 happens: a page cut after its second match and a whole page were
\* both reported.
C7_Witness ==
    /\ Result("cut", 2, ErrRead) \in Range(Printed)
    /\ Result("ok", 2, Nil) \in Range(Printed)

\* a printed line shows a count
ReportsCount(line) == Len(line) >= 3 /\ line[2] = "\n\tcount: "

\* C8 as stated: in every printed Result with an error the count is 0 or is
\* not reported, and in one without the count is the page's match count.
C8_Original ==
    \A j \in DOMAIN stdout :
        /\ Printed[j].err # Nil =>
               (Printed[j].count = 0 \/ ~ReportsCount(stdout[j]))
        /\ Printed[j].err = Nil =>
               Printed[j].count = PageMatches(Printed[j].link)

\* C8 amended: every printed line shows its count; with the error of a failed
\* GET or status the count is 0, with the error of a failed scan it is the
\* number of matches scanned before the failure, and without error it is
\* the page's match count.
C8_ResultInvariant ==
    \A j \in DOMAIN stdout :
        LET r   == Printed[j]
            res == Get(r.link)
        IN  /\ ReportsCount(stdout[j])
            /\ r.err = Nil =>
                   /\ res.err = Nil /\ res.StatusCode = 200
                   /\ r.count = PageMatches(r.link)
            /\ (r.err # Nil /\ (res.err # Nil \/ res.StatusCode # 200)) =>
                   r.count = 0
            /\ (r.err # Nil /\ res.err = Nil /\ res.StatusCode = 200) =>
                   /\ r.count <= PageMatches(r.link)
                   /\ r.err = ErrRead => r.count = PageMatches(r.link)

\* C8 happens: a line with an error and a count that is not 0 was printed,
\* and a line without error.
C8_Witness ==
    \E j, k \in DOMAIN stdout :
        /\ Printed[j].err # Nil /\ Printed[j].count > 0
        /\ Printed[k].err = Nil /\ Printed[k].count > 0

\* C9: whenever a worker is about to send a Result the result channel, whose
\* capacity is len(links), holds fewer Results than that.
C9_SendNeverBlocks ==
    \A w \in Workers :
        wpc[w] = "send" =>
            /\ result_chan.cap = Len(links)
            /\ Len(result_chan.buf) < Len(links)

\* C9 happens: main has read nothing and not closed the link channel, all
\* Results but one are buffered and a worker is about to send the last.
C9_Witness ==
    /\ Len(links) = 3
    /\ ~link_chan.closed
    /\ Len(result_chan.buf) = 2
    /\ \E w \in Workers : wpc[w] = "send"

\* C10: a worker returns only from the head of its loop and only with the
\* link channel closed and empty; at the head of the loop with the channel
\* empty and not closed it can do nothing.
C10_NoEarlyExit ==
    /\ [](\A w \in Workers :
            /\ wpc[w] = "returned" => (link_chan.closed /\ link_chan.buf = <<>>)
            /\ (wpc[w] = "range" /\ link_chan.buf = <<>> /\ ~link_chan.closed)
                   => ~ENABLED Worker(w))
    /\ [][\A w \in Workers :
            (wpc'[w] = "returned" /\ wpc[w] # "returned")
                => (wpc[w] = "range" /\ link_chan.closed
                      /\ link_chan.buf = <<>>)]_vars

\* C10 happens: the only worker went through a failed job, later found the
\* channel closed and empty and returned, before main was done.
C10_Witness ==
    /\ numWorkers = 1
    /\ wpc[1] = "returned"
    /\ gets["down"] = 1
    /\ pc = "recv"

\* C10's other case happens: a worker waits at an empty, open link channel.
C10_Blocked ==
    /\ wpc[1] = "range"
    /\ link_chan.buf = <<>>
    /\ ~link_chan.closed
    /\ pc = "send"

(* ------------------------------ two pages ----------------------------- *)

\* The program run with the target word cat on links to two pages, one that
\* answers and one whose GET fails.
PoolURLs == {"ok", "down"}

PoolInit ==
    /\ Init
    /\ word = Cat
    /\ Range(links) \subseteq PoolURLs

(* --------------------------- a GET that hangs -------------------------- *)

\* In HangSpec the server of this URL neither answers nor refuses: a GET of
\* it never returns (http.Get is called without a timeout).
Hung == "down"

\* res, err := http.Get(link), for a link whose GET returns
WorkerGetUnlessHung(w) == wlink[w] # Hung /\ WorkerGet(w)

HangWorker(w) ==
    \/ WorkerTake(w)
    \/ WorkerReturn(w)
    \/ WorkerGetUnlessHung(w)
    \/ WorkerSend(w)

HangNext == Main \/ \E w \in Workers : HangWorker(w)

HangSpec == PoolInit /\ [][HangNext]_vars

\* the scheduler's fairness, every GET but the hung one taken to end
HangFairSpec ==
    /\ HangSpec
    /\ WF_vars(Main)
    /\ \A w \in Workers : WF_vars(HangWorker(w))

\* one job's GET hangs: the hung URL was submitted once and a worker is in
\* its GET
OneGetHangs ==
    /\ Occ(links, Hung) = 1
    /\ \E w \in Workers : wpc[w] = "get" /\ wlink[w] = Hung

\* C11 as stated, for any worker count: once one job's GET hangs, the run
\* does not stop before main has printed the Results of all other jobs.
C11_Original ==
    (OneGetHangs /\ Len(stdout) < Len(links) - 1) => ENABLED HangNext

\* C11 amended, for a worker count of at least 2: once one job's GET hangs,
\* the Results of all other jobs are eventually printed, and until then the
\* run never stops.
C11_OthersStillCollected ==
    /\ [](( OneGetHangs /\ ~UintLess(numWorkers, 2)
            /\ Len(stdout) < Len(links) - 1) => ENABLED HangNext)
    /\ ((OneGetHangs /\ ~UintLess(numWorkers, 2))
          ~> (Len(stdout) = Len(links) - 1))

\* C11 happens: one of two workers hangs in its GET and main has printed the
\* Results of the two other jobs, which the other worker fetched.
C11_Witness ==
    /\ OneGetHangs
    /\ numWorkers = 2
    /\ Len(links) = 3
    /\ Len(stdout) = 2
    /\ pc = "recv"

(* ---------------------- countOccurrences by itself --------------------- *)

\* the bytes of the bodies tried: two letters that differ in case only, and
\* two kinds of space
Alphabet == {"c", "C", " ", "\n"}

\* the targets tried
ScanTargets == {<<"c">>, <<"C", "c">>}

\* countOccurrences is about to be called with any target and any body of
\* at most MaxBody bytes that ends in io.EOF or in a read error
ScanInit ==
    /\ word \in ScanTargets
    /\ reader \in {Stream(d, f) : d \in SeqsUpTo(Alphabet, MaxBody),
                                 f \in BOOLEAN}
    /\ counted = NotCounted
    /\ pc = "call"
    /\ numWorkers = 0
    /\ links = <<>>
    /\ i = 0
    /\ next = 1
    /\ link_chan = NilChan
    /\ result_chan = NilChan
    /\ wpc = [w \in Workers |-> "none"]
    /\ wlink = [w \in Workers |-> ""]
    /\ wresult = [w \in Workers |-> NoResult]
    /\ stdout = <<>>
    /\ gets = [u \in URLs |-> 0]
    /\ scans = [u \in URLs |-> 0]

\* count, err := countOccurrences(word, s)
CountPage ==
    /\ pc = "call"
    /\ counted' = countOccurrences(word, reader)
    /\ pc' = "returned"
    /\ UNCHANGED <<word, numWorkers, links, i, next, stdout,
                   link_chan, result_chan, reader>>
    /\ UNCHANGED workerVars

ScanNext == CountPage

ScanSpec == ScanInit /\ [][ScanNext]_vars

\* C12: for every body that reads without error countOccurrences returns
\* the number of tokens equal to the target, and a nil error.
C12_CountsAllTokens ==
    (pc = "returned" /\ ~reader.fails) =>
        counted = <<Matches(word, reader.data), Nil>>

\* The same for the bodies all of whose tokens fit the scanner's buffer, and
\* with them the bodies that fail: the count is that of the data read.
C12_CountsWhenTokensFit ==
    (pc = "returned" /\ ~HasLongToken(reader.data)) =>
        counted = <<Matches(word, reader.data), StreamErr(reader)>>

(* ------------------------------ the pool ------------------------------ *)

\* the workers the spawn loop has started
Spawned == {w \in Workers : wpc[w] # "none"}

\* the workers that have taken a job and not yet sent its Result
InFlight == {w \in Workers : wpc[w] \in {"get", "send"}}

\* the smaller of two uints
MinUint(a, b) == IF UintLess(a, b) THEN a ELSE b

\* the spawn loop is over
SpawnLoopOver == pc \in {"send", "close", "recv", "done"}

\* At most as many jobs are in flight as workers were asked for and as links
\* were given.
C13_InFlightBound ==
    UintLess(Cardinality(InFlight), MinUint(numWorkers, Len(links)) + 1)

\* C13: once the spawn loop is over the number of workers started is the
\* worker count asked for, and the jobs taken whose Result has not been sent
\* are at most min(worker count, len(links)).
C13_ExactlyWorkerCount ==
    /\ SpawnLoopOver => Cardinality(Spawned) = numWorkers
    /\ C13_InFlightBound

\* The same with int(numWorkers) positive.
C13_ExactlyWorkerCountSpawned ==
    ToInt(numWorkers) > 0 => C13_ExactlyWorkerCount

(* ------------------------------ the close ----------------------------- *)

\* C14: the link channel is closed only with every link pushed and stays
\* closed; it is open when main reaches the close; nothing is printed while
\* it is open; and no step adds a link to the closed channel.
C14_CloseAfterSendsBeforeReceives ==
    /\ [](/\ link_chan.closed => (next > Len(links) /\ pc \in {"recv", "done"})
          /\ pc = "close" => ~link_chan.closed
          /\ (pc = "send" /\ next <= Len(links)) => ~link_chan.closed
          /\ ~link_chan.closed => (stdout = <<>> /\ pc \notin {"recv", "done"}))
    /\ [][/\ link_chan.closed =>
               /\ link_chan'.closed
               /\ Len(link_chan'.buf) <= Len(link_chan.buf)
          /\ (~link_chan.closed /\ link_chan'.closed) =>
               (pc = "close" /\ pc' = "recv" /\ i' = 0)]_vars

\* C14 happens: the workers have buffered every Result before main closes the
\* link channel, and main, the channel closed, has still received nothing.
C14_Witness ==
    /\ pc = "recv"
    /\ i = 0
    /\ link_chan.closed
    /\ Len(links) = 3
    /\ Len(result_chan.buf) = 3

\* the close changes nothing but the channel's closed flag, and a job leaves
\* the buffer only into a worker's loop variable
C15_CloseKeepsJobs ==
    [][/\ (~link_chan.closed /\ link_chan'.closed) =>
             (link_chan'.buf = link_chan.buf /\ UNCHANGED workerVars)
       /\ link_chan'.buf # link_chan.buf =>
             \/ /\ pc = "send" /\ next <= Len(links)
                /\ link_chan'.buf = Append(link_chan.buf, links[next])
             \/ \E w \in Workers :
                   /\ link_chan.buf # <<>>
                   /\ wpc[w] = "range" /\ wpc'[w] = "get"
                   /\ wlink'[w] = Head(link_chan.buf)
                   /\ link_chan'.buf = Tail(link_chan.buf)
       /\ \A w \in Workers :
             (wpc[w] = "send" /\ wpc'[w] # "send") =>
                 result_chan'.buf = Append(result_chan.buf, wresult[w])]_vars

\* after the close the buffer is emptied and every worker holding a job
\* gets rid of it
C15_JobsDelivered ==
    /\ link_chan.closed ~> (link_chan.buf = <<>>)
    /\ \A w \in Workers :
          (link_chan.closed /\ w \in InFlight) ~> (wpc[w] = "range")

\* C15: the close discards nothing; every job buffered at the close is
\* delivered to a worker afterwards, and every worker holding a job at the
\* close sends its Result.
C15_CloseDiscardsNothing == C15_CloseKeepsJobs /\ C15_JobsDelivered

\* The same with int(numWorkers) positive.
C15_CloseDiscardsNothingSpawned ==
    /\ C15_CloseKeepsJobs
    /\ (link_chan.closed /\ ToInt(numWorkers) > 0) ~> (link_chan.buf = <<>>)
    /\ \A w \in Workers :
          (link_chan.closed /\ w \in InFlight) ~> (wpc[w] = "range")

PoolFairSpec ==
    /\ PoolInit /\ [][Next]_vars
    /\ WF_vars(Main)
    /\ \A w \in Workers : WF_vars(Worker(w))

\* C16 as stated: after the close every worker started returns.
C16_Original ==
    \A w \in Workers :
        (link_chan.closed /\ w \in Spawned) ~> (wpc[w] = "returned")

\* C16 amended: after the close every worker started returns or is ended by
\* main's return; one ended by main's return is at the head of its loop with
\* nothing left to take; and while the program runs a worker at the closed
\* and drained channel is not blocked and its step is the return.
C16_ReturnsOrEndedAtLoopHead ==
    /\ link_chan.closed
          ~> (pc = "done" \/ \A w \in Spawned : wpc[w] = "returned")
    /\ [](\A w \in Spawned :
            /\ pc = "done" =>
                 (wpc[w] \in {"range", "returned"} /\ RangeDone(link_chan))
            /\ (Running /\ wpc[w] = "range" /\ RangeDone(link_chan))
                 => ENABLED Worker(w))
    /\ [][\A w \in Workers :
            (wpc[w] = "range" /\ RangeDone(link_chan) /\ wpc'[w] # wpc[w])
                => wpc'[w] = "returned"]_vars

\* C16 happens: of two workers and one link, a worker that was given no job
\* and the other have both returned while main is still receiving.
C16_Witness ==
    /\ numWorkers = 2
    /\ Len(links) = 1
    /\ wpc[1] = "returned"
    /\ wpc[2] = "returned"
    /\ pc = "recv"

\* main has returned with a worker still at the head of its loop
C16_EndedAtLoopHead ==
    /\ pc = "done"
    /\ \E w \in Workers : wpc[w] = "range"

\* C17: every push of main finds room in the link channel, and from the make
\* up to the close main can always take its next step, whatever the workers
\* have done.
C17_PushNeverBlocks ==
    /\ (pc = "send" /\ next <= Len(links)) =>
          (link_chan.cap = Len(links) /\ CanSend(link_chan))
    /\ pc \in {"make", "spawn", "send", "close"} => ENABLED Main

\* C17 happens: every link is pushed and the channel closed with no worker
\* having taken a job.
C17_Witness ==
    /\ link_chan.closed
    /\ Len(links) = 3
    /\ link_chan.buf = links
    /\ numWorkers = 2
    /\ \A w \in Workers : wpc[w] = "range"
    /\ \A u \in URLs : gets[u] = 0

(* ---------------------------- conservation ---------------------------- *)

\* the number of Results for the link u in the sequence of Results rs
ResultsFor(rs, u) == Cardinality({j \in DOMAIN rs : rs[j].link = u})

\* C18: not yet pushed, buffered in the link channel, held by a worker,
\* buffered in the result channel and printed add up to len(links), and so
\* do, for every URL, its occurrences.
C18_JobConservation ==
    /\ Len(Unsent) + Len(link_chan.buf) + Cardinality(InFlight)
         + Len(result_chan.buf) + Len(stdout) = Len(links)
    /\ \A u \in URLs :
          Occ(Unsent, u) + Occ(link_chan.buf, u)
            + Cardinality(Holding(u, {"get", "send"}))
            + ResultsFor(result_chan.buf, u) + ResultsFor(Printed, u)
          = Occ(links, u)

\* C18 happens: of three occurrences of one URL one is held by a worker, one
\* is a buffered Result and one is printed.
C18_Witness ==
    /\ Occ(links, "ok") = 3
    /\ Cardinality(Holding("ok", {"get", "send"})) = 1
    /\ Len(result_chan.buf) = 1
    /\ Len(stdout) = 1

\* main has received its len(links)-th Result
Collected == pc \in {"recv", "done"} /\ i = Len(links)

\* C19: when main has received its len(links)-th Result the link channel is
\* closed and empty, the result channel is empty, and every worker is at the
\* head of its loop or has returned, with no Result left to send.
C19_Quiescent ==
    Collected =>
        /\ RangeDone(link_chan)
        /\ result_chan.buf = <<>>
        /\ InFlight = {}
        /\ Pending = {}
        /\ \A w \in Spawned : wpc[w] \in {"range", "returned"}
        /\ Len(stdout) = Len(links)

\* C19 happens: main has received the last of three Results; one worker has
\* returned, the other is about to see the closed channel.
C19_Witness ==
    /\ Collected
    /\ pc = "recv"
    /\ Len(links) = 3
    /\ wpc[1] = "returned"
    /\ wpc[2] = "range"

(* ------------------------------- order -------------------------------- *)

\* C20: with one worker the lines are printed in the order of the links.
C20_OneWorkerInOrder ==
    numWorkers = 1 =>
        \A j \in DOMAIN stdout : stdout[j] = String(Outcome(links[j]))

\* C20 happens: one worker, three different links, all printed.
C20_Witness ==
    /\ numWorkers = 1
    /\ pc = "done"
    /\ Len(links) = 3
    /\ Cardinality(Range(links)) = 3

\* C20's other case happens: two workers, two links, the second link's line
\* printed first.
C20_Reordered ==
    /\ numWorkers = 2
    /\ Len(links) = 2
    /\ links[1] # links[2]
    /\ Len(stdout) = 2
    /\ stdout[1][1] = links[2]

=============================================================================
